---- MODULE Spec2Model ----
(***************************************************************************)
(* Model of the trailer pipeline of src/main.py:                           *)
(*   main -> detect_scenes -> pick_interesting_scenes -> build_trailer.    *)
(*                                                                         *)
(* Units.  Times are whole seconds.  Scores are counted in twentieths      *)
(* (0.05): the duration score min(length, 10.0) / 10.0 is 2 * min(len,10), *)
(* the snapshot-failure score 0.1 is 2, a keyword hit 1.0 is 20, and a     *)
(* confidence given in tenths c contributes 0.5 * c/10 = c twentieths.     *)
(***************************************************************************)
EXTENDS Integers, Sequences, FiniteSets, TLC

\* -------- Settings (src/main.py:14-25) --------
MAX_TRAILER_SECONDS == 150
MIN_SCENE_SECONDS == 2
INTEREST_KEYWORDS ==
  {"fight", "violence", "gun", "weapon", "sword", "explosion",
   "car", "racing", "love", "kiss", "cry", "sad", "angry",
   "laugh", "crowd", "running", "fire", "police", "blood"}

\* literals of the code
FallbackStep == 8
FallbackPrefixSeconds == 20
DurationScoreCap == 10
SnapshotFailScore == 2
KeywordScore == 20
MinTake == 6
MaxTake == 12
TopN == 3

\* -------- bounds of the model --------
\* longest video of the pipeline specification
MaxDuration == 200
\* period of the schedule of per-scene outcomes (scene i gets entry i mod PatLen)
PatLen == 2
\* largest number of repetitions of a base ranking given to build_trailer
MaxRepeat == 13

VARIABLES
  pc,              \* position of main(): which call runs next
  inputExists,     \* os.path.exists("movie.mp4")
  HF_API_KEY,      \* TRUE iff the credential read at import time is non-empty
  duration,        \* clip.duration
  scene_list,      \* what the content detector returned
  scenes,          \* result of detect_scenes
  outcomes,        \* per scene: what save_frame and the oracle did
  scored,          \* the list `scores` before the final sort (input order)
  ranked,          \* the list `scores` after the sort = ranked_scenes
  tmpdirExists,    \* the directory made by tempfile.mkdtemp
  tmpFiles,        \* indices idx whose scene_{idx}.jpg is on disk
  idx,             \* position of build_trailer's loop in ranked_scenes
  total,           \* build_trailer: total
  selected_clips,  \* build_trailer: selected_clips as <<start, end>> ranges
  lastTake,        \* what the last loop iteration did: "none", "skip", "take", "shrink"
  outFile,         \* trailer.mp4: "absent", "partial", "complete"
  raised           \* the exception that ended the run, or "none"

vars == <<pc, inputExists, HF_API_KEY, duration, scene_list, scenes, outcomes,
          scored, ranked, tmpdirExists, tmpFiles, idx, total, selected_clips,
          lastTake, outFile, raised>>

Min(a, b) == IF a <= b THEN a ELSE b
Max(a, b) == IF a >= b THEN a ELSE b

RECURSIVE SumSeq(_)
SumSeq(s) == IF s = <<>> THEN 0 ELSE Head(s) + SumSeq(Tail(s))

\* =====================================================================
\* detect_scenes
\* =====================================================================

\* The detector's scene list for a set of cut positions: the consecutive
\* intervals between 0, the cuts and the end of the video.
RECURSIVE ScenesFromCuts(_, _, _)
ScenesFromCuts(from, cuts, dur) ==
  IF cuts = {} THEN <<<<from, dur>>>>
  ELSE LET c == CHOOSE x \in cuts : \A y \in cuts : x <= y
       IN <<<<from, c>>>> \o ScenesFromCuts(c, cuts \ {c}, dur)

\* mutant of FilterDetected: the length test is dropped
FilterDetectedKeepAll(sl) == sl

\* lines 44-49: keep the detected scenes of at least MIN_SCENE_SECONDS
RECURSIVE FilterDetected(_)
FilterDetected(sl) ==
  IF sl = <<>> THEN <<>>
  ELSE LET s == Head(sl)[1]
           e == Head(sl)[2]
       IN (IF e - s >= MIN_SCENE_SECONDS THEN <<<<s, e>>>> ELSE <<>>)
            \o FilterDetected(Tail(sl))

\* mutant of FallbackWindows: t advances by one second less than the window
RECURSIVE FallbackWindowsOverlap(_, _)
FallbackWindowsOverlap(t, dur) ==
  IF ~(t < dur) THEN <<>>
  ELSE LET s == t
           e == Min(t + FallbackStep, dur)
       IN (IF e - s >= MIN_SCENE_SECONDS THEN <<<<s, e>>>> ELSE <<>>)
            \o FallbackWindowsOverlap(t + FallbackStep - 1, dur)

\* mutant of FallbackWindows: every window shorter than the step is dropped
RECURSIVE FallbackWindowsFullOnly(_, _)
FallbackWindowsFullOnly(t, dur) ==
  IF ~(t < dur) THEN <<>>
  ELSE LET s == t
           e == Min(t + FallbackStep, dur)
       IN (IF e - s >= FallbackStep THEN <<<<s, e>>>> ELSE <<>>)
            \o FallbackWindowsFullOnly(t + FallbackStep, dur)

\* lines 56-63: the while loop of the fixed-segment fallback, from t
RECURSIVE FallbackWindows(_, _)
FallbackWindows(t, dur) ==
  IF ~(t < dur) THEN <<>>
  ELSE LET s == t
           e == Min(t + FallbackStep, dur)
       IN (IF e - s >= MIN_SCENE_SECONDS THEN <<<<s, e>>>> ELSE <<>>)
            \o FallbackWindows(t + FallbackStep, dur)

\* lines 44-66: the value detect_scenes returns
DetectResult(sl, dur) ==
  LET kept == FilterDetected(sl)
  IN IF kept = <<>> THEN FallbackWindows(0, dur) ELSE kept

\* The detector's outputs for a video of length dur: no scene at all or the
\* whole video as one scene when it finds no cut (both occur, depending on
\* the library version), else the intervals between its cuts (the last cut
\* set is a cut at every second of the first 17).
CutSets == {{}, {1}, {1, 3}, {5}, {8, 9}, {20, 45, 60}, {2, 4, 6}, 1..(2 * FallbackStep + 1)}
DetectorOutputs(dur) ==
  {<<>>} \cup {ScenesFromCuts(0, {c \in cs : c < dur}, dur) : cs \in CutSets}

\* lines 30-66
detect_scenes ==
  /\ pc = "detect"
  /\ \E sl \in DetectorOutputs(duration) :
       /\ scene_list' = sl
       /\ scenes' = DetectResult(sl, duration)
  /\ pc' = "score"
  /\ UNCHANGED <<inputExists, HF_API_KEY, duration, outcomes, scored, ranked,
                 tmpdirExists, tmpFiles, idx, total, selected_clips, lastTake,
                 outFile, raised>>

\* =====================================================================
\* hf_classify_image, score_scene_by_labels
\* =====================================================================

\* One entry of a JSON list the oracle answered: a dict (isDict) whose label
\* text contains the keywords `label` and whose score is `score` tenths, or
\* something that is no dict (a string, a number).
Entry(d, l, s) == [isDict |-> d, label |-> l, score |-> s]
NotADict == Entry(FALSE, {}, 0)

\* What one POST to the oracle can come to.
Response(k, b) == [kind |-> k, body |-> b]
NoCall == Response("no_call", <<>>)
Responses ==
  { Response("transport_error", <<>>),   \* requests.post raises
    Response("http_error", <<>>),        \* raise_for_status raises
    Response("not_json", <<>>),          \* r.json() raises
    Response("error_dict", <<>>),        \* {"error": ...}
    Response("other_json", <<>>),        \* a dict without error, a scalar
    Response("list", <<>>),              \* []
    Response("list", <<Entry(TRUE, {}, 9), NotADict>>),
    Response("list", <<Entry(TRUE, {}, 1), Entry(TRUE, {"car"}, 2),
                       Entry(TRUE, {"car", "fire"}, 4), Entry(TRUE, {}, 3)>>),
    Response("list", <<Entry(TRUE, {}, 0)>>) }

\* lines 68-93: the list hf_classify_image returns
hf_classify_image(resp) ==
  IF ~HF_API_KEY THEN <<>>
  ELSE IF resp.kind \in {"transport_error", "http_error", "not_json"} THEN <<>>
  ELSE IF resp.kind = "error_dict" THEN <<>>
  ELSE IF resp.kind = "list" THEN resp.body
  ELSE <<>>

\* sorted(labels_json, key=score, reverse=True): stable, descending
RECURSIVE InsertByScore(_, _)
InsertByScore(x, seq) ==
  IF seq = <<>> THEN <<x>>
  ELSE IF Head(seq).score >= x.score
       THEN <<Head(seq)>> \o InsertByScore(x, Tail(seq))
       ELSE <<x>> \o seq

RECURSIVE SortLabels(_)
SortLabels(seq) ==
  IF seq = <<>> THEN <<>>
  ELSE InsertByScore(seq[Len(seq)], SortLabels(SubSeq(seq, 1, Len(seq) - 1)))

\* lines 95-109: [exc |-> TRUE] when x.get fails on an entry that is no dict
score_scene_by_labels(labels_json) ==
  IF labels_json = <<>> THEN [exc |-> FALSE, value |-> 0]
  ELSE IF \E i \in 1..Len(labels_json) : ~labels_json[i].isDict
       THEN [exc |-> TRUE, value |-> 0]
  ELSE LET text == UNION {labels_json[i].label : i \in 1..Len(labels_json)}
           hits == Cardinality({kw \in INTEREST_KEYWORDS : kw \in text})
           srt  == SortLabels(labels_json)
           top3 == SubSeq(srt, 1, Min(TopN, Len(srt)))
       IN [exc |-> FALSE,
           value |-> hits * KeywordScore
                       + SumSeq([i \in 1..Len(top3) |-> top3[i].score])]

\* =====================================================================
\* pick_interesting_scenes
\* =====================================================================

\* What happens to one scene: save_frame succeeds or raises, and, when the
\* frame was saved and a credential is set, what the oracle answers.
Outcome(f, r) == [frame |-> f, resp |-> r]
Outcomes ==
  {Outcome(FALSE, NoCall)}
    \cup (IF HF_API_KEY THEN {Outcome(TRUE, r) : r \in Responses}
                        ELSE {Outcome(TRUE, NoCall)})

\* lines 121-137: the score appended for the scene (s, e) under outcome o
ScoreScene(s, e, o) ==
  IF ~o.frame THEN SnapshotFailScore
  ELSE LET labels == IF HF_API_KEY THEN hf_classify_image(o.resp) ELSE <<>>
       IN IF labels # <<>>
          THEN LET r == score_scene_by_labels(labels)
               IN IF r.exc THEN SnapshotFailScore ELSE r.value
          ELSE LET length == e - s
               IN 2 * Min(length, DurationScoreCap)

\* mutant of InsertDesc: an element goes before the earlier ones of its score
RECURSIVE InsertDescUnstable(_, _)
InsertDescUnstable(x, seq) ==
  IF seq = <<>> THEN <<x>>
  ELSE IF Head(seq)[1] > x[1]
       THEN <<Head(seq)>> \o InsertDescUnstable(x, Tail(seq))
       ELSE <<x>> \o seq

\* line 138: scores.sort(reverse=True, key=lambda x: x[0]); list.sort is
\* stable, also with reverse=True
RECURSIVE InsertDesc(_, _)
InsertDesc(x, seq) ==
  IF seq = <<>> THEN <<x>>
  ELSE IF Head(seq)[1] >= x[1]
       THEN <<Head(seq)>> \o InsertDesc(x, Tail(seq))
       ELSE <<x>> \o seq

RECURSIVE SortScores(_)
SortScores(seq) ==
  IF seq = <<>> THEN <<>>
  ELSE InsertDesc(seq[Len(seq)], SortScores(SubSeq(seq, 1, Len(seq) - 1)))

\* lines 111-140
pick_interesting_scenes ==
  /\ pc = "score"
  /\ \E pat \in [0..(PatLen - 1) -> Outcomes] :
       LET n  == Len(scenes)
           oc == [i \in 1..n |-> pat[(i - 1) % PatLen]]
           sc == [i \in 1..n |->
                    <<ScoreScene(scenes[i][1], scenes[i][2], oc[i]),
                      scenes[i][1], scenes[i][2]>>]
       IN /\ outcomes' = oc
          /\ scored' = sc
          /\ ranked' = SortScores(sc)
          /\ tmpFiles' = {i - 1 : i \in {j \in 1..n : oc[j].frame}}
  /\ tmpdirExists' = TRUE
  /\ idx' = 1
  /\ pc' = "build"
  /\ UNCHANGED <<inputExists, HF_API_KEY, duration, scene_list, scenes, total,
                 selected_clips, lastTake, outFile, raised>>

\* =====================================================================
\* build_trailer
\* =====================================================================

\* mutant of Chunk: the outer min with dur is missing
ChunkClampOnly(dur) == Max(MinTake, Min(MaxTake, dur))

\* line 155: take = min(dur, max(6.0, min(12.0, dur)))
Chunk(dur) == Min(dur, Max(MinTake, Min(MaxTake, dur)))

\* mutant of Take: the take is never shrunk to the remaining budget
TakeNoShrink(dur, tot) == Min(dur, Max(MinTake, Min(MaxTake, dur)))

\* lines 155-157: the take of a scene of length dur when `tot` is taken so far
Take(dur, tot) ==
  IF tot + Chunk(dur) > MAX_TRAILER_SECONDS
  THEN MAX_TRAILER_SECONDS - tot
  ELSE Chunk(dur)

\* lines 151-166: one iteration of the loop over ranked_scenes
build_trailer_loop ==
  /\ pc = "build"
  /\ idx <= Len(ranked)
  /\ LET s    == ranked[idx][2]
         e    == ranked[idx][3]
         dur  == e - s
         take == Take(dur, total)
     IN IF dur < MIN_SCENE_SECONDS
        THEN /\ idx' = idx + 1
             /\ lastTake' = "skip"
             /\ UNCHANGED <<pc, total, selected_clips>>
        ELSE IF take <= 0
        THEN /\ pc' = "assemble"
             /\ lastTake' = "none"
             /\ UNCHANGED <<idx, total, selected_clips>>
        ELSE /\ selected_clips' = Append(selected_clips, <<s, s + take>>)
             /\ total' = total + take
             /\ lastTake' = IF take < Chunk(dur) THEN "shrink" ELSE "take"
             /\ IF total + take >= MAX_TRAILER_SECONDS
                THEN pc' = "assemble" /\ idx' = idx
                ELSE pc' = "build" /\ idx' = idx + 1
  /\ UNCHANGED <<inputExists, HF_API_KEY, duration, scene_list, scenes,
                 outcomes, scored, ranked, tmpdirExists, tmpFiles, outFile,
                 raised>>

\* line 151: the loop ends when ranked_scenes is exhausted
build_trailer_loop_end ==
  /\ pc = "build"
  /\ idx > Len(ranked)
  /\ pc' = "assemble"
  /\ UNCHANGED <<inputExists, HF_API_KEY, duration, scene_list, scenes,
                 outcomes, scored, ranked, tmpdirExists, tmpFiles, idx, total,
                 selected_clips, lastTake, outFile, raised>>

\* mutant of FinalClips: the fallback prefix ignores the video's duration
FinalClipsFixedPrefix(sel, dur) ==
  IF sel = <<>> THEN <<<<0, FallbackPrefixSeconds>>>> ELSE sel

\* lines 168-171: the clips handed to concatenate_videoclips
FinalClips(sel, dur) ==
  IF sel = <<>> THEN <<<<0, Min(FallbackPrefixSeconds, dur)>>>> ELSE sel

\* lines 168-173
build_trailer_assemble ==
  /\ pc = "assemble"
  /\ selected_clips' = FinalClips(selected_clips, duration)
  /\ pc' = "render"
  /\ UNCHANGED <<inputExists, HF_API_KEY, duration, scene_list, scenes,
                 outcomes, scored, ranked, tmpdirExists, tmpFiles, idx, total,
                 lastTake, outFile, raised>>

\* lines 174-185, 196: write_videofile("trailer.mp4") runs to the end
write_videofile_ok ==
  /\ pc = "render"
  /\ outFile' = "complete"
  /\ pc' = "done"
  /\ UNCHANGED <<inputExists, HF_API_KEY, duration, scene_list, scenes,
                 outcomes, scored, ranked, tmpdirExists, tmpFiles, idx, total,
                 selected_clips, lastTake, raised>>

\* lines 174-184: write_videofile raises.  It writes to the final path
\* itself; the failure comes before the file is created or while it is
\* being written, and nothing in build_trailer or main removes the file.
write_videofile_fail ==
  /\ pc = "render"
  /\ \E f \in {"absent", "partial"} : outFile' = f
  /\ raised' = "render"
  /\ pc' = "failed"
  /\ UNCHANGED <<inputExists, HF_API_KEY, duration, scene_list, scenes,
                 outcomes, scored, ranked, tmpdirExists, tmpFiles, idx, total,
                 selected_clips, lastTake>>

\* =====================================================================
\* main
\* =====================================================================

\* lines 187-193
main ==
  /\ pc = "main"
  /\ pc' = IF inputExists THEN "detect" ELSE "exit"
  /\ UNCHANGED <<inputExists, HF_API_KEY, duration, scene_list, scenes,
                 outcomes, scored, ranked, tmpdirExists, tmpFiles, idx, total,
                 selected_clips, lastTake, outFile, raised>>

Durations == {1, 2, 3, 9, 10, 17, 70, MaxDuration}

Init ==
  /\ pc = "main"
  /\ inputExists \in BOOLEAN
  /\ HF_API_KEY \in BOOLEAN
  /\ duration \in Durations
  /\ scene_list = <<>>
  /\ scenes = <<>>
  /\ outcomes = <<>>
  /\ scored = <<>>
  /\ ranked = <<>>
  /\ tmpdirExists = FALSE
  /\ tmpFiles = {}
  /\ idx = 1
  /\ total = 0
  /\ selected_clips = <<>>
  /\ lastTake = "none"
  /\ outFile = "absent"
  /\ raised = "none"

Next ==
  \/ main
  \/ detect_scenes
  \/ pick_interesting_scenes
  \/ build_trailer_loop
  \/ build_trailer_loop_end
  \/ build_trailer_assemble
  \/ write_videofile_ok
  \/ write_videofile_fail

Spec == Init /\ [][Next]_vars

\* =====================================================================
\* build_trailer on its own: any ranked_scenes, any video duration
\* =====================================================================

\* scored scenes <<score, start, end>> inside a video of length dur
SceneStarts == {0, 3}
SceneLengths == {1, 2, 5, 6, 7, 12, 13, 140}
BuildScenes(dur) ==
  {x \in {<<KeywordScore, s, s + l>> : s \in SceneStarts, l \in SceneLengths} :
     x[3] <= dur}

RECURSIVE Repeat(_, _)
Repeat(base, k) == IF k = 0 THEN <<>> ELSE base \o Repeat(base, k - 1)

\* the scenario of four scenes of 20, 25, 15 and 140 seconds
ScenarioRanked ==
  << <<KeywordScore, 0, 20>>, <<KeywordScore, 20, 45>>,
     <<KeywordScore, 45, 60>>, <<KeywordScore, 60, 200>> >>

BuildInputs(dur) ==
  LET sc   == BuildScenes(dur)
      base == {<<>>} \cup {<<a>> : a \in sc} \cup {<<a, b>> : a \in sc, b \in sc}
  IN {Repeat(b, k) : b \in base, k \in 1..MaxRepeat}
       \cup (IF ScenarioRanked[4][3] <= dur THEN {ScenarioRanked} ELSE {})

BuildDurations == {1, 4, 19, 20, 21, 200}

InitBuild ==
  /\ pc = "build"
  /\ inputExists = TRUE
  /\ HF_API_KEY = FALSE
  /\ duration \in BuildDurations
  /\ ranked \in BuildInputs(duration)
  /\ scored = ranked
  /\ scene_list = <<>>
  /\ scenes = <<>>
  /\ outcomes = <<>>
  /\ tmpdirExists = TRUE
  /\ tmpFiles = {}
  /\ idx = 1
  /\ total = 0
  /\ selected_clips = <<>>
  /\ lastTake = "none"
  /\ outFile = "absent"
  /\ raised = "none"

NextBuild ==
  \/ build_trailer_loop
  \/ build_trailer_loop_end
  \/ build_trailer_assemble
  \/ write_videofile_ok
  \/ write_videofile_fail

SpecBuild == InitBuild /\ [][NextBuild]_vars

\* =====================================================================
\* Properties
\* =====================================================================

Range(seq) == {seq[i] : i \in 1..Len(seq)}
ClipSeconds(clips) == SumSeq([i \in 1..Len(clips) |-> clips[i][2] - clips[i][1]])
AfterDetect == pc \in {"score", "build", "assemble", "render", "done", "failed"}
AfterScoring == pc \in {"build", "assemble", "render", "done", "failed"}
Handed == pc \in {"render", "done", "failed"}
Qualifying(sl) == {i \in 1..Len(sl) : sl[i][2] - sl[i][1] >= MIN_SCENE_SECONDS}

\* C1: whatever the ranked scenes and the video duration, the segments handed
\* to the renderer last at most MAX_TRAILER_SECONDS in total, for the greedy
\* selection as for the first-min(20, duration)-seconds fallback.
C1_TrailerWithinCap ==
  /\ total <= MAX_TRAILER_SECONDS
  /\ Handed => ClipSeconds(selected_clips) <= MAX_TRAILER_SECONDS

C1_Witness ==
  /\ pc = "render"
  /\ lastTake = "shrink"
  /\ Len(selected_clips) > 1
  /\ ClipSeconds(selected_clips) = MAX_TRAILER_SECONDS

\* C2: for a video of at least MIN_SCENE_SECONDS, whatever the detector found,
\* detect_scenes returns a non-empty list of scenes with end > start, in
\* ascending start order, no two of them overlapping.
C2_ScenesNonEmptyOrdered ==
  (AfterDetect /\ duration >= MIN_SCENE_SECONDS) =>
    /\ scenes # <<>>
    /\ \A i \in 1..Len(scenes) : scenes[i][2] > scenes[i][1]
    /\ \A i, j \in 1..Len(scenes) :
         i < j => /\ scenes[i][1] < scenes[j][1]
                  /\ scenes[i][2] <= scenes[j][1]

C2_Witness ==
  /\ pc = "score"
  /\ scene_list # <<>>
  /\ Qualifying(scene_list) = {}
  /\ Len(scenes) >= 2

Malformed(resp) ==
  \/ resp.kind \in {"not_json", "other_json"}
  \/ resp.kind = "list" /\ \E x \in Range(resp.body) : ~x.isDict
Unavailable(resp) ==
  \/ ~HF_API_KEY
  \/ resp.kind \in {"transport_error", "http_error", "error_dict"}
  \/ Malformed(resp)
C4_UnavailableScoresByDuration ==
  AfterScoring =>
    \A i \in 1..Len(scored) :
      (outcomes[i].frame /\ Unavailable(outcomes[i].resp)) =>
        scored[i][1] = 2 * Min(scored[i][3] - scored[i][2], DurationScoreCap)

\* C5: the ranking is a permutation of the scored scenes, in descending score
\* order, scenes of equal score in their chronological (input) order.
Position(seq, x) == CHOOSE i \in 1..Len(seq) : seq[i] = x
C5_RankingStable ==
  AfterScoring =>
    /\ Len(ranked) = Len(scored)
    /\ Range(ranked) = Range(scored)
    /\ \A i, j \in 1..Len(ranked) :
         i < j => /\ ranked[i][1] >= ranked[j][1]
                  /\ ranked[i][1] = ranked[j][1] =>
                       /\ Position(scored, ranked[i]) < Position(scored, ranked[j])
                       /\ ranked[i][2] < ranked[j][2]

C5_Witness ==
  /\ pc = "build"
  /\ ranked # scored
  /\ \E i, j \in 1..Len(ranked) : i < j /\ ranked[i][1] = ranked[j][1]
  /\ \E i, j \in 1..Len(ranked) : ranked[i][1] > ranked[j][1]

\* C6: when no scene survives the selection (empty ranking, or every ranked
\* scene shorter than MIN_SCENE_SECONDS) the trailer is the one segment
\* [0, min(20, duration)) and the run has not failed; when a scene is
\* selected the fallback segment is not emitted.
Survivors == {i \in 1..Len(ranked) : ranked[i][3] - ranked[i][2] >= MIN_SCENE_SECONDS}
C6_FallbackIffNothingSelected ==
  Handed =>
    /\ Survivors = {} =>
         /\ selected_clips = <<<<0, Min(FallbackPrefixSeconds, duration)>>>>
         /\ total = 0
         /\ raised = "none" \/ pc = "failed"
    /\ Survivors # {} =>
         /\ total > 0
         /\ ClipSeconds(selected_clips) = total
         /\ \A c \in Range(selected_clips) :
              \E i \in Survivors : c[1] = ranked[i][2] /\ c[2] <= ranked[i][3]

C6_Witness ==
  /\ pc = "render"
  /\ Len(ranked) >= 2
  /\ Survivors = {}
  /\ duration < FallbackPrefixSeconds
  /\ selected_clips = <<<<0, duration>>>>

\* C7: when detection yields no scene of at least MIN_SCENE_SECONDS,
\* detect_scenes returns the windows [8k, min(8k+8, duration)), k = 0, 1, ...,
\* without a trailing window shorter than MIN_SCENE_SECONDS; when detection
\* yields a qualifying scene, no fallback window is added.
WindowCount == (duration + FallbackStep - 1) \div FallbackStep
KeptWindows ==
  IF duration - FallbackStep * (WindowCount - 1) < MIN_SCENE_SECONDS
  THEN WindowCount - 1
  ELSE WindowCount
C7_FallbackPartition ==
  AfterDetect =>
    /\ Qualifying(scene_list) = {} =>
         scenes = [k \in 1..KeptWindows |->
                     <<FallbackStep * (k - 1), Min(FallbackStep * k, duration)>>]
    /\ Qualifying(scene_list) # {} =>
         /\ Len(scenes) = Cardinality(Qualifying(scene_list))
         /\ Range(scenes) = {scene_list[i] : i \in Qualifying(scene_list)}

C7_Witness ==
  /\ pc = "score"
  /\ Qualifying(scene_list) = {}
  /\ Len(scenes) >= 2
  /\ scenes[Len(scenes)][2] < duration

\* C8: every temporary frame file and the temporary directory made by
\* pick_interesting_scenes is removed by the time scoring returns.
C8_TempArtifactsRemoved ==
  AfterScoring => (~tmpdirExists /\ tmpFiles = {})

\* C9: when the render fails the run ends in failure and no partial file is
\* at the output path; the path holds a file only after a completed render.
C9_NoPartialOutput ==
  /\ raised = "render" => (pc = "failed" /\ outFile = "absent")
  /\ outFile # "absent" => (outFile = "complete" /\ pc = "done")

\* C10: in the greedy loop a scene shorter than MIN_SCENE_SECONDS is skipped
\* and leaves the total unchanged; any other scene is taken from its start
\* for min(d, 12) seconds, shrunk to MAX_TRAILER_SECONDS - total when it would
\* pass the cap; no scene is considered once the total has reached the cap;
\* scenes of 20, 25, 15, 140 seconds give takes 12, 12, 12, 12, in all 48.
C10_LoopStep ==
  (pc = "build" /\ idx <= Len(ranked)) =>
    LET s == ranked[idx][2]
        d == ranked[idx][3] - ranked[idx][2]
        want == IF total + Min(d, MaxTake) > MAX_TRAILER_SECONDS
                THEN MAX_TRAILER_SECONDS - total
                ELSE Min(d, MaxTake)
    IN IF d < MIN_SCENE_SECONDS
       THEN total' = total /\ selected_clips' = selected_clips /\ pc' = "build"
       ELSE /\ total' = total + want
            /\ selected_clips' = Append(selected_clips, <<s, s + want>>)
            /\ (total' >= MAX_TRAILER_SECONDS) <=> (pc' = "assemble")
C10_Stops == pc = "build" => total < MAX_TRAILER_SECONDS
C10_Scenario ==
  (Handed /\ [i \in 1..Len(ranked) |-> ranked[i][3] - ranked[i][2]] = <<20, 25, 15, 140>>) =>
    /\ [i \in 1..Len(selected_clips) |-> selected_clips[i][2] - selected_clips[i][1]]
         = <<12, 12, 12, 12>>
    /\ total = 48
C10_GreedyLoop ==
  /\ [][C10_LoopStep]_vars
  /\ [](C10_Stops /\ C10_Scenario)

C10_Witness ==
  /\ pc = "assemble"
  /\ lastTake = "shrink"
  /\ total = MAX_TRAILER_SECONDS
  /\ \E i \in 1..(idx - 1) : ranked[i][3] - ranked[i][2] < MIN_SCENE_SECONDS

====
